---- MODULE Spec2Model ----
(***************************************************************************)
(* Consumer of the temperature-and-humidity simulator                      *)
(* (src/consumer/src/index.ts): the per-message handler handleMessage, the *)
(* prom-client metric set it mutates, the amqplib channel it acks / nacks  *)
(* on, and the Pushgateway it pushes to.                                   *)
(*                                                                         *)
(* Node runs one handler at a time up to its first await, so the           *)
(* synchronous section of a handler (lines 69-111) is executed by one      *)
(* handler at a time (cur); handlers overlap only while a push is pending. *)
(***************************************************************************)
EXTENDS Integers, Sequences, FiniteSets, TLC

\* Number of deliveries the broker makes in one run.
MaxMsgs == 2

Handlers == 1..MaxMsgs

\* ------------------------------------------------------------------------
\* JSON values as JSON.parse produces them, with typeof.
\* ------------------------------------------------------------------------
Undefined == [t |-> "undefined", s |-> "", n |-> 0]
JStr(x) == [t |-> "string", s |-> x, n |-> 0]
JNum(k) == [t |-> "number", s |-> "", n |-> k]

typeof(v) == v.t

\* let sensorId: string = 'unknown'
UNKNOWN == "unknown"

\* Strings a payload can carry as its sensorId.
SensorNames == {"dht22-01", UNKNOWN}

\* Label values of the metrics.
Labels == SensorNames \cup {UNKNOWN}

\* What a payload can carry under sensorId: nothing, a number, the empty
\* string, a sensor name.
SensorIdFields == {Undefined, JNum(7), JStr("")} \cup {JStr(x) : x \in SensorNames}

\* What a payload can carry under temperature and humidity: two full
\* readings, one lacking its temperature, one with a humidity that is a string.
Readings ==
  { <<JNum(22), JNum(45)>>, <<JNum(25), JNum(50)>>,
    <<Undefined, JNum(45)>>, <<JNum(22), JStr("45")>> }

\* A body that is a JSON object.
ObjectBodies ==
  { [top |-> "object", sensorId |-> i, temperature |-> r[1], humidity |-> r[2]] :
      i \in SensorIdFields, r \in Readings }

\* Bodies that are not objects: an empty buffer, text that is not JSON,
\* the JSON literal null, a JSON number.
PlainBody(k) ==
  [top |-> k, sensorId |-> Undefined, temperature |-> Undefined, humidity |-> Undefined]

Bodies == ObjectBodies \cup {PlainBody(k) : k \in {"empty", "garbage", "null", "number"}}

\* ConsumeMessage | null
NullMsg == [null |-> TRUE, content |-> PlainBody("empty")]
Message(b) == [null |-> FALSE, content |-> b]
Messages == {NullMsg} \cup {Message(b) : b \in Bodies}

\* JSON.parse(content) throws a SyntaxError on these.
SyntaxError(content) == content.top \in {"empty", "garbage"}

\* data.<field>: undefined on a primitive, a TypeError on null.
TypeErrorOnRead(data) == data.top = "null"
GetProp(data, k) == IF data.top = "object" THEN data[k] ELSE Undefined

\* `data &&`
Truthy(data) == data.top \in {"object", "number"}

\* ------------------------------------------------------------------------
\* State
\* ------------------------------------------------------------------------
VARIABLES
  latest,           \* number of invocations of handleMessage so far
  msg,              \* the `msg` argument of invocation `latest`
  pc,               \* pc[h]: where invocation h stands
  sensorId,         \* sensorId[h]: the local `sensorId` of invocation h
  thrown,           \* thrown[h]: an exception is on its way to the outer catch
  cur,              \* the invocation in its synchronous section, 0 when none
  received,         \* messagesReceivedCounter, by label
  processed,        \* messagesProcessedCounter, by label
  failed,           \* messagesFailedCounter, by label
  lastTemperature,  \* lastTemperatureGauge, by label
  lastHumidity,     \* lastHumidityGauge, by label
  channel,          \* channel[h]: the calls invocation h made on the channel
  pushes,           \* pushes[h]: the gateway.push calls invocation h made
  pre,              \* the metric set when invocation `latest` started
  proc              \* the process: main(), the SIGINT handler, connection, exit

vars ==
  <<latest, msg, pc, sensorId, thrown, cur, received, processed, failed,
    lastTemperature, lastHumidity, channel, pushes, pre, proc>>

metrics == <<received, processed, failed, lastTemperature, lastHumidity>>

\* A gauge that set() was never called on has no sample.
NoSample == -1

MetricSet ==
  [received |-> received, processed |-> processed, failed |-> failed,
   lastTemperature |-> lastTemperature, lastHumidity |-> lastHumidity]

Inc(counter, label) == [counter EXCEPT ![label] = @ + 1]

\* The process once main() has set the consumer up: connected, the consume
\* callback and the SIGINT handler registered, no signal received.
Started ==
  [main |-> "consuming", sig |-> "none", connection |-> "open", exit |-> "running",
   finalPushes |-> <<>>, sigAt |-> 0]

\* Everything but the process: nothing handled yet.
HandlerInit ==
  /\ latest = 0
  /\ msg = NullMsg
  /\ pc = [h \in Handlers |-> "idle"]
  /\ sensorId = [h \in Handlers |-> UNKNOWN]
  /\ thrown = [h \in Handlers |-> FALSE]
  /\ cur = 0
  /\ received = [l \in Labels |-> 0]
  /\ processed = [l \in Labels |-> 0]
  /\ failed = [l \in Labels |-> 0]
  /\ lastTemperature = [l \in Labels |-> NoSample]
  /\ lastHumidity = [l \in Labels |-> NoSample]
  /\ channel = [h \in Handlers |-> <<>>]
  /\ pushes = [h \in Handlers |-> <<>>]
  /\ pre = [received |-> [l \in Labels |-> 0], processed |-> [l \in Labels |-> 0],
            failed |-> [l \in Labels |-> 0],
            lastTemperature |-> [l \in Labels |-> NoSample],
            lastHumidity |-> [l \in Labels |-> NoSample]]

\* handleMessage called on a consumer that is up, as its tests call it.
Init == HandlerInit /\ proc = Started

\* ------------------------------------------------------------------------
\* handleMessage, statement by statement
\* ------------------------------------------------------------------------

\* Mutant of CanDeliver: the callback awaits the handler, so a pending push
\* holds the next delivery back.
CanDeliverAwaited(h) ==
  /\ cur = 0
  /\ h = latest + 1
  /\ \A g \in Handlers : pc[g] # "await"

\* The consume callback calls handleMessage(msg, channel) without awaiting
\* it: the next delivery is handled as soon as the event loop is free,
\* whatever pushes are pending.
CanDeliver(h) ==
  /\ cur = 0
  /\ h = latest + 1

\* Mutant of IsNull: the null check is missing.
IsNullNever(m) == FALSE

\* if (!msg) { return; }
IsNull(m) == m.null

\* handleMessage(msg, channel) is called: the null check, then
\* let sensorId = 'unknown'; const content = msg.content.toString();
Handle(h, m) ==
  /\ CanDeliver(h)
  /\ latest' = h
  /\ msg' = m
  /\ IF IsNull(m)
       THEN pc' = [pc EXCEPT ![h] = "skipped"] /\ cur' = cur
       ELSE pc' = [pc EXCEPT ![h] = "parse"] /\ cur' = h
  /\ sensorId' = [sensorId EXCEPT ![h] = UNKNOWN]
  /\ pre' = MetricSet
  /\ UNCHANGED <<proc, thrown, metrics, channel, pushes>>

\* handleMessage is called with any message.
Deliver(h) == \E m \in Messages : Handle(h, m)

\* const data = JSON.parse(content);
Parse(h) ==
  /\ cur = h /\ pc[h] = "parse"
  /\ pc' = [pc EXCEPT ![h] = IF SyntaxError(msg.content) THEN "catch" ELSE "label"]
  /\ UNCHANGED <<proc, latest, msg, sensorId, thrown, cur, metrics, channel, pushes, pre>>

\* if (data && typeof data.sensorId === 'string' && data.sensorId.length > 0)
HasSensorId(d) ==
  /\ Truthy(d)
  /\ typeof(GetProp(d, "sensorId")) = "string"
  /\ GetProp(d, "sensorId").s # ""

\* sensorId = data.sensorId, or the initial 'unknown'
LabelOf(d) == IF HasSensorId(d) THEN GetProp(d, "sensorId").s ELSE UNKNOWN

\* the labelling if, then messagesReceivedCounter.labels(sensorId).inc()
Label(h) ==
  /\ cur = h /\ pc[h] = "label"
  /\ sensorId' = [sensorId EXCEPT ![h] = LabelOf(msg.content)]
  /\ received' = Inc(received, LabelOf(msg.content))
  /\ pc' = [pc EXCEPT ![h] = "validate"]
  /\ UNCHANGED <<proc, latest, msg, thrown, cur, processed, failed, lastTemperature,
                 lastHumidity, channel, pushes, pre>>

\* Mutant of ValidationThrows: the sensorId === 'unknown' test is missing.
ValidationThrowsNoIdTest(sid, d) ==
  \/ TypeErrorOnRead(d)
  \/ typeof(GetProp(d, "temperature")) # "number"
  \/ typeof(GetProp(d, "humidity")) # "number"

\* if (sensorId === 'unknown' || typeof data.temperature !== 'number'
\*     || typeof data.humidity !== 'number') throw new Error(...)
\* Reading data.temperature of null throws a TypeError instead.
ValidationThrows(sid, d) ==
  \/ sid = UNKNOWN
  \/ TypeErrorOnRead(d)
  \/ typeof(GetProp(d, "temperature")) # "number"
  \/ typeof(GetProp(d, "humidity")) # "number"

Validate(h) ==
  /\ cur = h /\ pc[h] = "validate"
  /\ pc' = [pc EXCEPT ![h] =
              IF ValidationThrows(sensorId[h], msg.content) THEN "catch" ELSE "update"]
  /\ UNCHANGED <<proc, latest, msg, sensorId, thrown, cur, metrics, channel, pushes, pre>>

\* lastTemperatureGauge.labels(sensorId).set(data.temperature);
\* lastHumidityGauge.labels(sensorId).set(data.humidity);
\* messagesProcessedCounter.labels(sensorId).inc();
Update(h) ==
  /\ cur = h /\ pc[h] = "update"
  /\ lastTemperature' =
       [lastTemperature EXCEPT ![sensorId[h]] = GetProp(msg.content, "temperature").n]
  /\ lastHumidity' =
       [lastHumidity EXCEPT ![sensorId[h]] = GetProp(msg.content, "humidity").n]
  /\ processed' = Inc(processed, sensorId[h])
  /\ pc' = [pc EXCEPT ![h] = "ack"]
  /\ UNCHANGED <<proc, latest, msg, sensorId, thrown, cur, received, failed, channel,
                 pushes, pre>>

ChannelCall(op, allUpTo, requeue, threw) ==
  [op |-> op, allUpTo |-> allUpTo, requeue |-> requeue, threw |-> threw]

\* channel.ack(msg)
AckCall(threw) == ChannelCall("ack", FALSE, FALSE, threw)

\* channel.ack(msg) returns
Ack(h) ==
  /\ cur = h /\ pc[h] = "ack"
  /\ channel' = [channel EXCEPT ![h] = Append(@, AckCall(FALSE))]
  /\ pc' = [pc EXCEPT ![h] = "finally"]
  /\ UNCHANGED <<proc, latest, msg, sensorId, thrown, cur, metrics, pushes, pre>>

\* Mutant of AckThrows: the exception of channel.ack leaves handleMessage,
\* no catch and no finally run.
AckThrowsUncaught(h) ==
  /\ cur = h /\ pc[h] = "ack"
  /\ channel' = [channel EXCEPT ![h] = Append(@, AckCall(TRUE))]
  /\ pc' = [pc EXCEPT ![h] = "rejected"]
  /\ cur' = 0
  /\ UNCHANGED <<proc, latest, msg, sensorId, thrown, metrics, pushes, pre>>

\* channel.ack(msg) throws; the call sits in the inner try block, so the
\* exception lands in its catch clause.
AckThrows(h) ==
  /\ cur = h /\ pc[h] = "ack"
  /\ channel' = [channel EXCEPT ![h] = Append(@, AckCall(TRUE))]
  /\ pc' = [pc EXCEPT ![h] = "catch"]
  /\ UNCHANGED <<proc, latest, msg, sensorId, thrown, cur, metrics, pushes, pre>>

\* Mutant of FailedLabel: failures are always counted under 'unknown'.
FailedLabelUnknown(h) == UNKNOWN

\* messagesFailedCounter.labels(sensorId)
FailedLabel(h) == sensorId[h]

\* catch (e) { console.error(...); messagesFailedCounter.labels(sensorId).inc();
Catch(h) ==
  /\ cur = h /\ pc[h] = "catch"
  /\ failed' = Inc(failed, FailedLabel(h))
  /\ pc' = [pc EXCEPT ![h] = "nack"]
  /\ UNCHANGED <<proc, latest, msg, sensorId, thrown, cur, received, processed,
                 lastTemperature, lastHumidity, channel, pushes, pre>>

\* Mutant of NackCall: the message is requeued.
NackCallRequeue(threw) == ChannelCall("nack", FALSE, TRUE, threw)

\* channel.nack(msg, false, false)
NackCall(threw) == ChannelCall("nack", FALSE, FALSE, threw)

\* channel.nack(msg, false, false) returns
Nack(h) ==
  /\ cur = h /\ pc[h] = "nack"
  /\ channel' = [channel EXCEPT ![h] = Append(@, NackCall(FALSE))]
  /\ pc' = [pc EXCEPT ![h] = "finally"]
  /\ UNCHANGED <<proc, latest, msg, sensorId, thrown, cur, metrics, pushes, pre>>

\* channel.nack(msg, false, false) throws: the exception leaves the catch
\* clause, the finally clause runs, then the outer catch takes it.
NackThrows(h) ==
  /\ cur = h /\ pc[h] = "nack"
  /\ channel' = [channel EXCEPT ![h] = Append(@, NackCall(TRUE))]
  /\ thrown' = [thrown EXCEPT ![h] = TRUE]
  /\ pc' = [pc EXCEPT ![h] = "finally"]
  /\ UNCHANGED <<proc, latest, msg, sensorId, cur, metrics, pushes, pre>>

\* gateway.push({ jobName: JOB_NAME, groupings }) with groupings = { sensorId }
PushCall(label) == [groupings |-> label, status |-> "pending"]

\* Mutant of Grouping: sensorId is a variable of the module, shared by the
\* invocations, so it holds what the latest invocation left in it.
GroupingShared(h) == sensorId[latest]

\* pushMetrics({ sensorId }): the local sensorId of the invocation
Grouping(h) == sensorId[h]

\* finally { await pushMetrics({ sensorId }); }: the push is started and the
\* handler is suspended, which frees the event loop.
Finally(h) ==
  /\ cur = h /\ pc[h] = "finally"
  /\ pushes' = [pushes EXCEPT ![h] = Append(@, PushCall(Grouping(h)))]
  /\ pc' = [pc EXCEPT ![h] = "await"]
  /\ cur' = 0
  /\ UNCHANGED <<proc, latest, msg, sensorId, thrown, metrics, channel, pre>>

\* Mutant of PushMetricsThrows: pushMetrics lets a rejection through.
PushMetricsRethrows(status) == status = "rejected"

\* pushMetrics: try { await gateway.push(...) } catch (error) { console.error }:
\* no outcome of the push leaves pushMetrics as an exception.
PushMetricsThrows(status) == FALSE

\* The handler continues once its pending push has settled.  After the
\* finally clause an exception on its way out of the inner try statement
\* reaches the outer catch, which calls pushMetrics({ sensorId }) again;
\* otherwise, and after the outer catch's push, the handler returns.  An
\* exception thrown inside the outer catch would reject the handler's promise.
Settled(h, status) ==
  /\ cur = 0 /\ pc[h] = "await"
  /\ LET n == Len(pushes[h])
         settled == [pushes[h] EXCEPT ![n].status = status]
         inOuterCatch == n > 1
     IN IF ~inOuterCatch /\ (thrown[h] \/ PushMetricsThrows(status))
          THEN /\ pushes' = [pushes EXCEPT ![h] = Append(settled, PushCall(Grouping(h)))]
               /\ thrown' = [thrown EXCEPT ![h] = FALSE]
               /\ pc' = pc
          ELSE /\ pushes' = [pushes EXCEPT ![h] = settled]
               /\ thrown' = thrown
               /\ pc' = [pc EXCEPT ![h] =
                           IF inOuterCatch /\ PushMetricsThrows(status)
                             THEN "rejected" ELSE "done"]
  /\ UNCHANGED <<proc, latest, msg, sensorId, cur, metrics, channel, pre>>

\* await gateway.push(...) resolves
PushResolved(h) == Settled(h, "resolved")

\* await gateway.push(...) rejects; pushMetrics logs the error
PushRejected(h) == Settled(h, "rejected")

Next ==
  \E h \in Handlers :
    \/ Deliver(h)
    \/ Parse(h)
    \/ Label(h)
    \/ Validate(h)
    \/ Update(h)
    \/ Ack(h)
    \/ AckThrows(h)
    \/ Catch(h)
    \/ Nack(h)
    \/ NackThrows(h)
    \/ Finally(h)
    \/ PushResolved(h)
    \/ PushRejected(h)

Spec == Init /\ [][Next]_vars

\* ------------------------------------------------------------------------
\* main(): set-up, the consume callback, the SIGINT handler
\* ------------------------------------------------------------------------

handlerVars ==
  <<latest, msg, pc, sensorId, thrown, cur, received, processed, failed,
    lastTemperature, lastHumidity, channel, pushes, pre>>

\* The awaited calls of main()'s try block, in order; channel.consume
\* follows them.
SetupCalls == <<"connect", "createChannel", "assertExchange", "assertQueue", "bindQueue">>

SetupCallNames == {SetupCalls[i] : i \in 1..Len(SetupCalls)}

AfterSetupCall(c) ==
  LET i == CHOOSE k \in 1..Len(SetupCalls) : SetupCalls[k] = c
  IN IF i < Len(SetupCalls) THEN SetupCalls[i + 1] ELSE "consume"

\* The process when main() is entered: let connection = null.
Booting ==
  [main |-> "connect", sig |-> "none", connection |-> "none", exit |-> "running",
   finalPushes |-> <<>>, sigAt |-> 0]

MainInit == HandlerInit /\ proc = Booting

\* process.exit ends every pending invocation of handleMessage.
Killed == [h \in Handlers |-> IF pc[h] = "await" THEN "killed" ELSE pc[h]]

\* catch (error) { console.error(...); process.exit(1); }
ExitOnStartupError == "1"

\* An awaited set-up call resolves: amqp.connect gives the connection, the
\* others lead to the next call.
SetupReturns ==
  /\ proc.exit = "running" /\ proc.main \in SetupCallNames
  /\ proc' = [proc EXCEPT !.main = AfterSetupCall(proc.main),
                          !.connection = IF proc.main = "connect" THEN "open" ELSE @]
  /\ UNCHANGED handlerVars

\* A set-up call rejects, or channel.consume throws: the catch of main()
\* logs and exits.
SetupFails ==
  /\ proc.exit = "running" /\ proc.main \in SetupCallNames \cup {"consume"}
  /\ proc' = [proc EXCEPT !.main = "failed", !.exit = ExitOnStartupError]
  /\ UNCHANGED handlerVars

\* channel.consume(q.queue, callback) is called and not awaited,
\* process.on('SIGINT', ...) registers the handler, main() returns.
ConsumeCalled ==
  /\ proc.exit = "running" /\ proc.main = "consume"
  /\ proc' = [proc EXCEPT !.main = "registering"]
  /\ UNCHANGED handlerVars

\* The broker confirms the consumer: deliveries start.
ConsumeOk ==
  /\ proc.exit = "running" /\ proc.main = "registering"
  /\ proc' = [proc EXCEPT !.main = "consuming"]
  /\ UNCHANGED handlerVars

\* The promise of channel.consume rejects.  Nothing awaits it and no
\* unhandledRejection listener is installed, so Node (node:22-alpine) ends the
\* process with status 1.
ConsumeRejects ==
  /\ proc.exit = "running" /\ proc.main = "registering" /\ cur = 0
  /\ proc' = [proc EXCEPT !.main = "failed", !.exit = "1"]
  /\ pc' = Killed
  /\ UNCHANGED <<latest, msg, sensorId, thrown, cur, metrics, channel, pushes, pre>>

\* Messages the broker delivers to the callback: the null of a cancelled
\* consumer, text that is not JSON, a reading of the producer.
BrokerMessages ==
  { NullMsg, Message(PlainBody("garbage")),
    Message([top |-> "object", sensorId |-> JStr("dht22-01"),
             temperature |-> JNum(22), humidity |-> JNum(45)]) }

\* Mutant of CanConsume: the callback is registered as soon as the
\* connection is open, before the set-up has finished.
CanConsumeEarly(h) ==
  /\ proc.exit = "running" /\ proc.connection = "open"
  /\ CanDeliver(h)

\* Mutant of CanConsume: the SIGINT handler cancels the consumer first.
CanConsumeUntilSignal(h) ==
  /\ proc.exit = "running" /\ proc.main = "consuming" /\ proc.connection = "open"
  /\ proc.sig = "none"
  /\ CanDeliver(h)

\* The callback given to channel.consume runs for a delivery: the consumer
\* is registered, the connection open, the event loop free.
CanConsume(h) ==
  /\ proc.exit = "running" /\ proc.main = "consuming" /\ proc.connection = "open"
  /\ CanDeliver(h)

\* (msg) => { handleMessage(msg, channel); }
Consume(h) == CanConsume(h) /\ \E m \in BrokerMessages : Handle(h, m)

\* pushMetrics() of the SIGINT handler: no groupings
NoGroupings == "(none)"

FinalPushCall == [groupings |-> NoGroupings, status |-> "pending"]

\* SIGINT arrives once the handler is registered: the handler logs and calls
\* pushMetrics().  A run has one shutdown signal.
Sigint ==
  /\ proc.exit = "running" /\ proc.main \in {"registering", "consuming"}
  /\ proc.sig = "none" /\ cur = 0
  /\ proc' = [proc EXCEPT !.sig = "push", !.finalPushes = <<FinalPushCall>>,
                          !.sigAt = latest]
  /\ UNCHANGED handlerVars

\* Mutant of ShutdownContinues: a rejected final push ends the handler.
ShutdownContinuesOnSuccess(status) == status = "resolved"

\* await pushMetrics().catch(...): pushMetrics swallows a rejection and the
\* .catch would take what is left, so the handler goes on either way.
ShutdownContinues(status) == TRUE

\* The final push settles; then if (connection) { await connection.close(); }
\* is called.  Were the rejection to leave the handler, nothing would take
\* it and Node would end the process with status 1.
FinalPushSettled(status) ==
  /\ proc.exit = "running" /\ proc.sig = "push" /\ cur = 0
  /\ IF ShutdownContinues(status)
       THEN /\ proc' = [proc EXCEPT !.finalPushes[1].status = status,
                                    !.sig = "close", !.connection = "closing"]
            /\ pc' = pc
       ELSE /\ proc' = [proc EXCEPT !.finalPushes[1].status = status,
                                    !.sig = "crashed", !.exit = "1"]
            /\ pc' = Killed
  /\ UNCHANGED <<latest, msg, sensorId, thrown, cur, metrics, channel, pushes, pre>>

FinalPushResolved == FinalPushSettled("resolved")

FinalPushRejected == FinalPushSettled("rejected")

\* connection.close() resolves; process.exit(0).
CloseResolved ==
  /\ proc.exit = "running" /\ proc.sig = "close" /\ cur = 0
  /\ proc' = [proc EXCEPT !.sig = "exited", !.connection = "closed", !.exit = "0"]
  /\ pc' = Killed
  /\ UNCHANGED <<latest, msg, sensorId, thrown, cur, metrics, channel, pushes, pre>>

\* A step of handleMessage after its entry.
HandlerStep(h) ==
  \/ Parse(h)
  \/ Label(h)
  \/ Validate(h)
  \/ Update(h)
  \/ Ack(h)
  \/ AckThrows(h)
  \/ Catch(h)
  \/ Nack(h)
  \/ NackThrows(h)
  \/ Finally(h)
  \/ PushResolved(h)
  \/ PushRejected(h)

MainNext ==
  \/ SetupReturns
  \/ SetupFails
  \/ ConsumeCalled
  \/ ConsumeOk
  \/ ConsumeRejects
  \/ Sigint
  \/ FinalPushResolved
  \/ FinalPushRejected
  \/ CloseResolved
  \/ \E h \in Handlers : Consume(h)
  \/ \E h \in Handlers : HandlerStep(h)

\* The whole process, from the entry of main().
SpecMain == MainInit /\ [][MainNext]_vars

\* What runs without waiting for the collector: the statements of the
\* program, which Node runs to their next await, and the broker's answer to
\* connection.close().  The collector may never answer a push.
ProgramStep ==
  \/ ConsumeCalled
  \/ CloseResolved
  \/ \E h \in Handlers :
       Parse(h) \/ Label(h) \/ Validate(h) \/ Update(h) \/ Ack(h) \/ Catch(h)
         \/ Nack(h) \/ Finally(h)

SpecMainFair == SpecMain /\ WF_vars(ProgramStep)

\* ------------------------------------------------------------------------
\* Vocabulary of the properties
\* ------------------------------------------------------------------------

\* The latest invocation had a message and has left its synchronous section.
Handled == latest \in Handlers /\ ~msg.null /\ pc[latest] \in {"await", "done"}

\* Invocation h had a message and has left its synchronous section.
PastSync(h) == pc[h] \in {"await", "done"}

\* The body is JSON text.
Decodes(b) == b.top \in {"null", "number", "object"}

\* The body carries a sensorId that is a non-empty string.
UsableIdentity(b) ==
  b.top = "object" /\ b.sensorId.t = "string" /\ b.sensorId.s # ""

\* The body carries a numeric temperature and a numeric humidity.
NumericReading(b) ==
  b.top = "object" /\ b.temperature.t = "number" /\ b.humidity.t = "number"

WellFormed(b) == UsableIdentity(b) /\ NumericReading(b)

\* The label a message is to be counted under.
ExpectedLabel(b) == IF UsableIdentity(b) THEN b.sensorId.s ELSE UNKNOWN

\* The calls on the channel for message h are one nack(msg, false, false).
OnlyNack(h) ==
  /\ Len(channel[h]) = 1
  /\ channel[h][1].op = "nack"
  /\ ~channel[h][1].allUpTo
  /\ ~channel[h][1].requeue

\* The calls on the channel for message h are one ack(msg).
OnlyAck(h) == Len(channel[h]) = 1 /\ channel[h][1].op = "ack"

GaugesUntouched ==
  lastTemperature = pre.lastTemperature /\ lastHumidity = pre.lastHumidity

\* Invocation h has pushed, and each of its pushes is grouped by label l.
PushedUnder(h, l) ==
  /\ pushes[h] # <<>>
  /\ \A i \in 1..Len(pushes[h]) : pushes[h][i].groupings = l

\* ------------------------------------------------------------------------
\* Properties
\* ------------------------------------------------------------------------

\* C1: every invocation with a message makes exactly one call on the
\* channel, an ack or a nack: never two calls, and one once its synchronous
\* section is over.
C1_ExactlyOneDisposition ==
  \A h \in Handlers :
    /\ Len(channel[h]) <= 1
    /\ PastSync(h) => Len(channel[h]) = 1

\* C2: a message with a numeric temperature, a numeric humidity and any
\* non-empty string sensorId is acked and never nacked, processed[sensorId]
\* grows by exactly 1, both gauges of sensorId take the message's values,
\* and failed is unchanged.
C2_WellFormedAcked ==
  (Handled /\ WellFormed(msg.content)) =>
    LET id == msg.content.sensorId.s
    IN /\ OnlyAck(latest)
       /\ processed = Inc(pre.processed, id)
       /\ lastTemperature = [pre.lastTemperature EXCEPT ![id] = msg.content.temperature.n]
       /\ lastHumidity = [pre.lastHumidity EXCEPT ![id] = msg.content.humidity.n]
       /\ failed = pre.failed

\* C3: a message whose body is not JSON is nacked with nack(msg, false,
\* false) and never acked, failed["unknown"] grows by exactly 1, and no gauge
\* and no processed counter changes.
C3_UndecodableRejected ==
  (Handled /\ ~Decodes(msg.content)) =>
    /\ OnlyNack(latest)
    /\ failed = Inc(pre.failed, UNKNOWN)
    /\ GaugesUntouched
    /\ processed = pre.processed

C3_Witness ==
  /\ Handled /\ msg.content.top = "garbage"
  /\ failed[UNKNOWN] = 1 /\ channel[latest] # <<>>

\* C4: a message whose body is JSON without a usable sensor identity
\* (sensorId missing, empty or not a string, or the value is null or not an
\* object) is nacked with nack(msg, false, false) and never acked,
\* failed["unknown"] grows by exactly 1, no gauge changes, and the push is
\* grouped by "unknown".
C4_NoIdentityRejected ==
  (Handled /\ Decodes(msg.content) /\ ~UsableIdentity(msg.content)) =>
    /\ OnlyNack(latest)
    /\ failed = Inc(pre.failed, UNKNOWN)
    /\ GaugesUntouched
    /\ PushedUnder(latest, UNKNOWN)

C4_Witness ==
  /\ Handled /\ msg.content.top = "object"
  /\ msg.content.sensorId = Undefined /\ NumericReading(msg.content)
  /\ pushes[latest] # <<>> /\ failed[UNKNOWN] >= 1

\* C5: a message whose body is JSON with a non-empty string sensorId but a
\* temperature or humidity that is missing or not a number is nacked with
\* nack(msg, false, false) and never acked, failed grows by exactly 1 under
\* that sensorId and under no other label, no gauge and no processed counter
\* changes, and the push is grouped by that sensorId.
C5_BadReadingRejectedUnderId ==
  (Handled /\ UsableIdentity(msg.content) /\ ~NumericReading(msg.content)) =>
    LET id == msg.content.sensorId.s
    IN /\ OnlyNack(latest)
       /\ failed = Inc(pre.failed, id)
       /\ GaugesUntouched
       /\ processed = pre.processed
       /\ PushedUnder(latest, id)

C5_Witness ==
  /\ Handled /\ UsableIdentity(msg.content) /\ ~NumericReading(msg.content)
  /\ msg.content.sensorId.s # UNKNOWN
  /\ failed[msg.content.sensorId.s] >= 1 /\ failed[UNKNOWN] = pre.failed[UNKNOWN]
  /\ pushes[latest] # <<>>

\* C6: every message handled grows received[label] by exactly 1, label being
\* the sensorId recovered from it or "unknown"; a body that is not JSON
\* counts under received["unknown"].
C6_ReceivedCountsEveryMessage ==
  Handled => received = Inc(pre.received, ExpectedLabel(msg.content))

\* C7: an invocation with a null message returns at once and leaves every
\* metric, every record of channel calls and every record of pushes as it
\* was, and does not occupy the event loop.
C7_NullMessageNoEffect ==
  [][(latest' # latest /\ msg'.null) =>
       /\ pc'[latest'] = "skipped"
       /\ UNCHANGED <<metrics, channel, pushes, cur, thrown>>]_vars

C7_Witness ==
  /\ latest = 2 /\ msg.null /\ pc[2] = "skipped"
  /\ channel[1] # <<>> /\ channel[2] = <<>> /\ pushes[2] = <<>>

\* C8: every invocation with a message pushes exactly once, and that push is
\* grouped by the label the message was counted under.
C8_ExactlyOnePush ==
  \A h \in Handlers :
    /\ Len(pushes[h]) <= 1
    /\ PastSync(h) => (Len(pushes[h]) = 1 /\ pushes[h][1].groupings = sensorId[h])

\* Some nack call of invocation h threw.
NackThrew(h) == \E i \in 1..Len(channel[h]) : channel[h][i].op = "nack" /\ channel[h][i].threw

\* C9: the collector cannot affect what the broker is told.  The calls on
\* the channel for a message are complete before its push is started, so
\* they are the same whether that push resolves, rejects or stays pending;
\* a delivery is taken whenever the event loop is free, however many pushes
\* are pending; and a push is not tried again: an invocation pushes once,
\* and a second time only from the outer catch after nack threw.
C9_CollectorNeverAffectsBroker ==
  /\ [](\A h \in Handlers :
          /\ pushes[h] # <<>> => channel[h] # <<>>
          /\ Len(pushes[h]) <= (IF NackThrew(h) THEN 2 ELSE 1))
  /\ []((cur = 0 /\ latest < MaxMsgs) => ENABLED Deliver(latest + 1))
  /\ [][\A h \in Handlers : pushes[h] # <<>> => channel'[h] = channel[h]]_vars

C9_Witness ==
  /\ pc[1] = "await" /\ pushes[1][1].status = "pending"
  /\ pc[2] = "done" /\ channel[2] # <<>> /\ pushes[2][1].status = "rejected"

\* C10: every counter only grows, a gauge of sensor s holds the values of
\* the latest message for s that had a numeric temperature, a numeric
\* humidity and a non-empty string sensorId, and no other message changes a
\* gauge.
C10_CountersGrowGaugesLatest ==
  /\ [](Handled =>
          IF WellFormed(msg.content)
            THEN LET id == msg.content.sensorId.s
                 IN /\ lastTemperature =
                         [pre.lastTemperature EXCEPT ![id] = msg.content.temperature.n]
                    /\ lastHumidity =
                         [pre.lastHumidity EXCEPT ![id] = msg.content.humidity.n]
            ELSE GaugesUntouched)
  /\ [][\A l \in Labels :
          /\ received'[l] >= received[l]
          /\ processed'[l] >= processed[l]
          /\ failed'[l] >= failed[l]]_vars

\* C15: handleMessage is total.  For every body and every outcome of the
\* pushes its promise never rejects, an invocation that has not returned
\* holds the event loop and has a next step, or waits for a pending push
\* whose either outcome it can take up; it pushes at most twice, so it
\* returns once its pushes settle.
C15_HandlerTotal ==
  \A h \in Handlers :
    /\ pc[h] # "rejected"
    /\ Len(pushes[h]) <= 2
    /\ pc[h] \in {"parse", "label", "validate", "update", "ack", "catch", "nack", "finally"}
         => (cur = h /\ ENABLED HandlerStep(h))
    /\ pc[h] = "await"
         => /\ pushes[h][Len(pushes[h])].status = "pending"
            /\ cur = 0 => (ENABLED PushResolved(h) /\ ENABLED PushRejected(h))

C15_Witness ==
  /\ latest \in Handlers /\ ~msg.null /\ pc[latest] = "done"
  /\ NackThrew(latest)
  /\ Len(pushes[latest]) = 2
  /\ pushes[latest][1].status = "rejected" /\ pushes[latest][2].status = "rejected"

\* Some call of invocation h on the channel threw.
ChannelThrew(h) == \E i \in 1..Len(channel[h]) : channel[h][i].threw

\* C16: when channel.ack or channel.nack throws, a push grouped by that
\* message's label is still attempted: the invocation goes on to its push
\* and, once out of its synchronous section, has pushed, every push of it
\* being grouped by the label of its message.
C16_PushAttemptedAfterChannelThrow ==
  /\ \A h \in Handlers :
       ChannelThrew(h) =>
         /\ pc[h] \in {"catch", "nack", "finally", "await", "done"}
         /\ pc[h] \in {"await", "done"} => PushedUnder(h, sensorId[h])
  /\ (Handled /\ ChannelThrew(latest)) => PushedUnder(latest, ExpectedLabel(msg.content))

C16_Witness ==
  /\ Handled /\ WellFormed(msg.content) /\ msg.content.sensorId.s # UNKNOWN
  /\ Len(channel[latest]) = 2
  /\ channel[latest][1].op = "ack" /\ channel[latest][1].threw
  /\ channel[latest][2].op = "nack" /\ channel[latest][2].threw
  /\ PushedUnder(latest, msg.content.sensorId.s)

\* C17: the steps for one message are strictly ordered.  The label is
\* determined and received[label] incremented when the schema is judged;
\* every change of a counter or gauge for a message comes before any ack or
\* nack is called for it; an ack or nack has been called before its first
\* push starts; and no metric changes for a message once it has pushed, so
\* what is pushed contains every metric effect of the message.
C17_StrictOrder ==
  [][\A h \in Handlers :
       /\ pc'[h] = "validate" =>
            /\ sensorId'[h] = ExpectedLabel(msg'.content)
            /\ received' = Inc(pre'.received, sensorId'[h])
       /\ (cur = h /\ metrics' # metrics) => (channel[h] = <<>> /\ pushes[h] = <<>>)
       /\ (pushes[h] = <<>> /\ pushes'[h] # <<>>) => channel[h] # <<>>
    ]_vars

\* C18: whenever no invocation is inside its synchronous section, every
\* label l has received[l] = processed[l] + failed[l], so failed[l] never
\* exceeds received[l].
C18_ReceivedIsProcessedPlusFailed ==
  cur = 0 =>
    \A l \in Labels :
      /\ received[l] = processed[l] + failed[l]
      /\ failed[l] <= received[l]

\* C19: the outcomes of one message exclude each other and agree with its
\* disposition: it never increments both processed and failed, processed is
\* incremented only for a message that is acked and not nacked, and failed
\* only for a message that is nacked and not acked, also when channel.ack
\* throws.
C19_OutcomeAgreesWithDisposition ==
  Handled =>
    /\ ~(processed # pre.processed /\ failed # pre.failed)
    /\ processed # pre.processed => OnlyAck(latest)
    /\ failed # pre.failed => OnlyNack(latest)

\* Only invocation h's own synchronous steps change its label and its calls
\* on the channel, and each push it starts is grouped by its own label, the
\* one of its message.
OwnLabelAndDisposition(h) ==
  /\ (channel'[h] # channel[h] \/ sensorId'[h] # sensorId[h]) => (cur = h \/ cur' = h)
  /\ Len(pushes'[h]) > Len(pushes[h]) =>
       /\ pushes'[h][Len(pushes'[h])].groupings = sensorId[h]
       /\ h = latest => sensorId[h] = ExpectedLabel(msg.content)

\* The message of invocation h, leaving its synchronous section, has been
\* counted exactly once: once as received and once as processed or failed,
\* under its label.
CountedOnce(h) ==
  (cur = h /\ cur' = 0) =>
    LET l == ExpectedLabel(msg.content)
    IN /\ received' = Inc(pre.received, l)
       /\ \/ processed' = Inc(pre.processed, l) /\ failed' = pre.failed
          \/ failed' = Inc(pre.failed, l) /\ processed' = pre.processed

\* C20: with several invocations in flight, handlers do not interfere: the
\* label and the disposition of a message are set by its own invocation
\* only, each message contributes exactly once to the counters, and every
\* push is grouped by the label of the message that triggered it.
C20_HandlersDoNotInterfere ==
  [][\A h \in Handlers : OwnLabelAndDisposition(h) /\ CountedOnce(h)]_vars

\* The part of C20 that is about concurrency alone.
HandlersKeepTheirOwn ==
  [][\A h \in Handlers : OwnLabelAndDisposition(h)]_vars

\* C11: once SIGINT has been received no new delivery is accepted: no
\* message delivered after the signal is acked, nacked or recorded in any
\* metric, while every message in flight at the signal has its disposition.
C11_NoDeliveryHandledAfterSigint ==
  proc.sig # "none" =>
    /\ \A h \in Handlers : h > proc.sigAt => channel[h] = <<>>
    /\ (latest > proc.sigAt /\ ~msg.null) => MetricSet = pre
    /\ \A h \in Handlers :
         (h <= proc.sigAt /\ pc[h] \in {"await", "done", "killed"}) => channel[h] # <<>>

C13_ShutdownTerminates == (proc.sig # "none") ~> (proc.exit # "running")

\* C14: when a step of the start-up fails (connect, createChannel,
\* assertExchange, assertQueue, bindQueue or the registration of the
\* consumer), the process has exited with status 1 and no message was
\* handled in that run: no invocation of the handler, no ack, no nack, no
\* metric change and no push of a handler.
C14_StartupFailureExitsUnhandled ==
  proc.main = "failed" =>
    /\ proc.exit = "1"
    /\ latest = 0
    /\ \A h \in Handlers : pc[h] = "idle" /\ channel[h] = <<>> /\ pushes[h] = <<>>
    /\ \A l \in Labels :
         /\ received[l] = 0 /\ processed[l] = 0 /\ failed[l] = 0
         /\ lastTemperature[l] = NoSample /\ lastHumidity[l] = NoSample

C14_Witness ==
  /\ proc.main = "failed" /\ proc.exit = "1"
  /\ proc.connection = "open" /\ proc.sig = "none"

====
